---- MODULE Spec2Model ----
(***************************************************************************)
(* The asynchronous execution pipeline of the live code execution system:  *)
(* the API's run operation (src/unnamed/part_000), the producer            *)
(* (src/src/queue/producer.ts), the status store (src/unnamed/part_001)    *)
(* and the worker's job handler (src/src/queue/worker.ts).                 *)
(*                                                                         *)
(* One handler invocation is a record in the set `handlers`; its field pc  *)
(* is the await at which the invocation is suspended.  Everything between  *)
(* two awaits is one step.  Environment failures (a store query that       *)
(* rejects, a file system call that rejects, a spawn that throws) are      *)
(* outcomes the steps draw from small sets; their number is bounded.       *)
(***************************************************************************)
EXTENDS Integers, Sequences, FiniteSets, TLC

----------------------------------------------------------------------------
(* Bounds of the model *)

MaxSessions == 1
MaxExec == 1
MaxFaults == 2
PoolJobs == 6
BusyJobs == 6

(* Program constants *)

EXECUTION_TIMEOUT_MS == 5000
concurrency == 5
attempts == 2

\* A nullable column of table executions holds Null or Some(value)
Null == <<>>
Some(v) == <<v>>

\* No exception has been thrown in the handler invocation
NoError == "none"

Languages == {"python", "javascript", "ruby"}

(* Source texts, named by how the interpreter behaves on them:            *)
(*   "ok"   prints a line and exits with code 0                            *)
(*   "bad"  is rejected by the interpreter: exit code 1, text on stderr    *)
(*   "loop" prints a line and then never exits by itself                   *)
Codes == {"ok", "bad", "loop"}

TimedOutMsg == "Execution Timed Out"
StoreErrMsg == "store error"
WriteErrMsg == "EACCES: writeFile"
SpawnErrMsg == "ENOENT: spawn"
DrainErrMsg == "stream error"

Terminal == {"COMPLETED", "FAILED", "TIMEOUT"}

VARIABLES
  sessions,     \* session id -> [language, source_code, status]
  executions,   \* execution id -> the row of table executions
  pendingRun,   \* run requests in progress, after getSession: [id, session_id, pc, ...]
  jobs,         \* execution id -> the job of queue "code-execution"
  wait,         \* the queue's wait list, oldest first
  handlers,     \* the handler invocations in flight
  files,        \* the files of TEMP_DIR: name |-> content
  orphans,      \* the number of killed subprocesses that outlived their handler
  cleanupLog,   \* execution ids for which "Failed to cleanup file" was logged
  faults,       \* environment failures so far
  reply         \* the response to the last API request that wrote nothing

vars == <<sessions, executions, pendingRun, jobs, wait, handlers, files,
          orphans, cleanupLog, faults, reply>>

----------------------------------------------------------------------------
(* Pure helpers of the worker *)

\* worker.ts:31  `${executionId}.${language === "python" ? "py" : "js"}`
FileExt(language) == IF language = "python" THEN "py" ELSE "js"

FileName_ByLanguage(id, language) == <<0, FileExt(language)>>

FileName(id, language) == <<id, FileExt(language)>>

\* worker.ts:37-44  the language to command table: the interpreter the file is
\* run with; NoCmd stands for the throw of the else branch
NoCmd == <<>>

Cmd(language) ==
  IF language = "python" THEN <<"python3">>
  ELSE IF language \in {"javascript", "typescript"} THEN <<"bun">>
  ELSE NoCmd

UnsupportedMsg(language) == "Unsupported language: " \o language

\* What the interpreter found at filePath when it opened it: nothing yet, no
\* file (it was unlinked after the writeFile), or the content of the file:
\* the source text of the job, or no text when the file has just been
\* truncated by another writeFile
NoProg == "none"
NoFile == "nofile"
NoText == ""
NoFileMsg == "can't open file: No such file or directory"

\* What the subprocess writes and how it exits, by what it runs: "ok" prints
\* a line, "bad" does not parse, "loop" never exits; an interpreter that
\* finds no file reports it and exits at once, one that finds an empty file
\* exits at once with no output
ProgStdout(ran) == IF ran \in {"ok", "loop"} THEN "hi\n" ELSE ""
ProgStderr(ran) ==
  IF ran = "bad" THEN "SyntaxError" ELSE IF ran = NoFile THEN NoFileMsg ELSE ""
ProgExitCode(ran) == IF ran = "bad" THEN 1 ELSE IF ran = NoFile THEN 2 ELSE 0
ProgExits(ran) == ran \in {"ok", "bad", NoFile, NoText}

OrNull_Always(s) == Some(s)

\* worker.ts:74  `stderr || null`
OrNull(s) == IF s = "" THEN Null ELSE Some(s)

\* worker.ts:54,72  the value of the race (the exit code) is never read: a
\* subprocess that exited is COMPLETED
StatusOfExit_ByExitCode(exitCode) == IF exitCode = 0 THEN "COMPLETED" ELSE "FAILED"

StatusOfExit(exitCode) == "COMPLETED"

Classify_AlwaysTimeout(msg) == "TIMEOUT"

Classify_AlwaysFailed(msg) == "FAILED"

\* worker.ts:82-87  the catch block's classification
Classify(msg) == IF msg = TimedOutMsg THEN "TIMEOUT" ELSE "FAILED"

\* worker.ts:25,66,80  Date.now() - startTime, to the precision of the model:
\* below the timeout (0) or not (EXECUTION_TIMEOUT_MS)
DurationValues == {0, EXECUTION_TIMEOUT_MS}

\* worker.ts:66,80  `const duration = Date.now() - startTime`, read when the
\* handler reaches the line, before the UPDATE that carries it is issued.
\* The clock starts before the RUNNING write and the timer
\* EXECUTION_TIMEOUT_MS after the spawn: a duration read after the timer has
\* fired is not below the timeout, one read before can be either (a slow
\* store or file system), and a later reading is not below an earlier one
Durations(h) ==
  {d \in DurationValues :
     /\ h.timer = "fired" => d = EXECUTION_TIMEOUT_MS
     /\ d >= h.duration}

----------------------------------------------------------------------------
(* The status store: table executions *)

CreateExecution_ResetsSession(ex, id, session_id) ==
  [i \in DOMAIN ex \cup {id} |->
     IF i = id \/ ex[i].session_id = session_id
     THEN [session_id |-> session_id, status |-> "QUEUED", stdout |-> Null,
           stderr |-> Null, execution_time_ms |-> Null]
     ELSE ex[i]]

CreateExecution_NoSession(ex, id, session_id) ==
  ex @@ (id :> [session_id |-> 0, status |-> "QUEUED", stdout |-> Null,
                stderr |-> Null, execution_time_ms |-> Null])

\* db.createExecution: INSERT ... VALUES (?, ?, 'QUEUED'); the other columns
\* take their default NULL
CreateExecution(ex, id, session_id) ==
  ex @@ (id :> [session_id |-> session_id, status |-> "QUEUED", stdout |-> Null,
                stderr |-> Null, execution_time_ms |-> Null])

UpdateExecutionStatus_Coalesce(ex, id, status, stdout, stderr, timeMs) ==
  IF id \in DOMAIN ex
  THEN [ex EXCEPT ![id] =
          [session_id |-> @.session_id, status |-> status,
           stdout |-> IF stdout = Null THEN @.stdout ELSE stdout,
           stderr |-> IF stderr = Null THEN @.stderr ELSE stderr,
           execution_time_ms |-> IF timeMs = Null THEN @.execution_time_ms
                                 ELSE timeMs]]
  ELSE ex

\* db.updateExecutionStatus: UPDATE executions SET status, stdout, stderr,
\* execution_time_ms WHERE id = ?  (no row, no change)
UpdateExecutionStatus(ex, id, status, stdout, stderr, timeMs) ==
  IF id \in DOMAIN ex
  THEN [ex EXCEPT ![id] = [session_id |-> @.session_id, status |-> status,
                           stdout |-> stdout, stderr |-> stderr,
                           execution_time_ms |-> timeMs]]
  ELSE ex

\* An environment failure is drawn only while the bound allows it
MayFail(isFailure) == isFailure => faults < MaxFaults
CountFault(isFailure) == faults' = IF isFailure THEN faults + 1 ELSE faults

----------------------------------------------------------------------------
(* The queue "code-execution" *)

\* producer.ts: executionQueue.add("execute", {executionId, language, code}, opts)
NewJob(language, code) ==
  [state |-> "waiting", attemptsMade |-> 0, attemptsStarted |-> 0, stalled |-> 0,
   language |-> language, code |-> code]

\* The handler resolved: removeOnComplete: true
CompleteJob(js, id) == [js EXCEPT ![id].state = "removed"]

FailJob_AlwaysRetries(js, id) ==
  [js EXCEPT ![id].attemptsMade = @ + 1, ![id].state = "delayed"]

\* The handler rejected: attempts: 2 with backoff, removeOnFail: false
FailJob(js, id) ==
  [js EXCEPT ![id].attemptsMade = @ + 1,
             ![id].state = IF js[id].attemptsMade + 1 < attempts
                           THEN "delayed" ELSE "failed"]

----------------------------------------------------------------------------
(* The API *)

\* uuidv4(): an id no session has (the least one)
FreshSessionId ==
  CHOOSE i \in 1..(MaxSessions + 1) :
    i \notin DOMAIN sessions /\ \A j \in 1..(i - 1) : j \in DOMAIN sessions

\* POST /code-sessions
CreateSession(language, code) ==
  /\ FreshSessionId <= MaxSessions
  /\ sessions' = sessions @@
       (FreshSessionId :>
          [language |-> language, source_code |-> code, status |-> "ACTIVE"])
  /\ UNCHANGED <<reply, executions, pendingRun, jobs, wait, handlers, files,
                 orphans, cleanupLog, faults>>

\* PATCH /code-sessions/:id
UpdateSessionCode(sid, code) ==
  /\ sid \in DOMAIN sessions
  /\ sessions[sid].source_code # code
  /\ sessions' = [sessions EXCEPT ![sid].source_code = code]
  /\ UNCHANGED <<reply, executions, pendingRun, jobs, wait, handlers, files,
                 orphans, cleanupLog, faults>>

\* The execution ids in use: those of the rows and of the run requests
UsedIds == DOMAIN executions \cup {p.id : p \in pendingRun}

\* uuidv4(): an id no execution and no run request has (the least one)
FreshId ==
  CHOOSE i \in 1..(MaxExec + 1) :
    i \notin UsedIds /\ \A j \in 1..(i - 1) : j \in UsedIds

RunGetSession_NoSessionCheck(sid) ==
  /\ FreshId <= MaxExec
  /\ LET found == sid \in DOMAIN sessions IN
       pendingRun' = pendingRun \cup
          {[id |-> FreshId, session_id |-> sid, pc |-> "insert",
            language |-> IF found THEN sessions[sid].language ELSE "python",
            code |-> IF found THEN sessions[sid].source_code ELSE "ok"]}
  /\ UNCHANGED <<reply, sessions, executions, jobs, wait, handlers, files, orphans,
                 cleanupLog, faults>>

\* POST /code-sessions/:id/run, to the await of createExecution: getSession
\* has found the session, the execution id is drawn; the request keeps the
\* session row it has read
RunGetSession(sid) ==
  /\ sid \in DOMAIN sessions
  /\ FreshId <= MaxExec
  /\ pendingRun' = pendingRun \cup
       {[id |-> FreshId, session_id |-> sid, pc |-> "insert",
         language |-> sessions[sid].language,
         code |-> sessions[sid].source_code]}
  /\ UNCHANGED <<reply, sessions, executions, jobs, wait, handlers, files, orphans,
                 cleanupLog, faults>>

\* One step of run request p: it leaves pendingRun for good, or goes on at pc
Advance(p, ended, pc) ==
  pendingRun' = IF ended THEN pendingRun \ {p}
                ELSE (pendingRun \ {p}) \cup {[p EXCEPT !.pc = pc]}

RunInsert_NoInsert(p, ok) ==
  /\ p \in pendingRun /\ p.pc = "insert"
  /\ MayFail(~ok)
  /\ CountFault(~ok)
  /\ Advance(p, ~ok, "read")
  /\ UNCHANGED <<reply, sessions, executions, jobs, wait, handlers, files, orphans,
                 cleanupLog>>

\* db.createExecution, the INSERT: the row is there, or the query rejects and
\* the request ends in onError
RunInsert(p, ok) ==
  /\ p \in pendingRun /\ p.pc = "insert"
  /\ MayFail(~ok)
  /\ CountFault(~ok)
  /\ executions' = IF ok THEN CreateExecution(executions, p.id, p.session_id)
                   ELSE executions
  /\ Advance(p, ~ok, "read")
  /\ UNCHANGED <<reply, sessions, jobs, wait, handlers, files, orphans, cleanupLog>>

\* db.createExecution, the SELECT of getExecution: it is answered, or it
\* rejects and the request ends in onError with the row in place
RunRead(p, ok) ==
  /\ p \in pendingRun /\ p.pc = "read"
  /\ MayFail(~ok)
  /\ CountFault(~ok)
  /\ Advance(p, ~ok, "enqueue")
  /\ UNCHANGED <<reply, sessions, executions, jobs, wait, handlers, files, orphans,
                 cleanupLog>>

\* addExecutionJob: the job is added with the language and the text the
\* request has read, or executionQueue.add rejects and the request ends in
\* onError
RunEnqueue(p, ok) ==
  /\ p \in pendingRun /\ p.pc = "enqueue"
  /\ MayFail(~ok)
  /\ CountFault(~ok)
  /\ pendingRun' = pendingRun \ {p}
  /\ IF ok
     THEN /\ jobs' = jobs @@ (p.id :> NewJob(p.language, p.code))
          /\ wait' = Append(wait, p.id)
     ELSE UNCHANGED <<jobs, wait>>
  /\ UNCHANGED <<reply, sessions, executions, handlers, files, orphans, cleanupLog>>

\* No request of that kind has been answered yet
NoReply == [http |-> 0]

\* PATCH /code-sessions/:id and POST /code-sessions/:id/run on an id that
\* updateSessionCode / getSession does not find: 404, nothing is written
SessionNotFound(route, sid) ==
  /\ sid \notin DOMAIN sessions
  /\ reply' = [route |-> route, id |-> sid, http |-> 404,
               body |-> [error |-> "Session not found"]]
  /\ UNCHANGED <<sessions, executions, pendingRun, jobs, wait, handlers, files,
                 orphans, cleanupLog, faults>>

\* part_000:77-78  `execution.stdout || ""`
OrEmpty(col) == IF col = Null THEN "" ELSE col[1]

\* GET /executions/:id  the response
GetExecutionResponse(ex, id) ==
  IF id \notin DOMAIN ex
  THEN [route |-> "GET /executions/:id", id |-> id, http |-> 404,
        body |-> [error |-> "Execution not found"]]
  ELSE IF ex[id].status \in Terminal
  THEN [route |-> "GET /executions/:id", id |-> id, http |-> 200,
        body |-> [execution_id |-> id, status |-> ex[id].status,
                  stdout |-> OrEmpty(ex[id].stdout),
                  stderr |-> OrEmpty(ex[id].stderr),
                  execution_time_ms |-> ex[id].execution_time_ms]]
  ELSE [route |-> "GET /executions/:id", id |-> id, http |-> 200,
        body |-> [execution_id |-> id, status |-> ex[id].status]]

\* GET /executions/:id: db.getExecution, a SELECT; nothing is written
GetExecution(id) ==
  /\ reply' = GetExecutionResponse(executions, id)
  /\ UNCHANGED <<sessions, executions, pendingRun, jobs, wait, handlers, files,
                 orphans, cleanupLog, faults>>

----------------------------------------------------------------------------
(* The worker: one handler invocation, worker.ts:23-103 *)

NewHandler_SkipsRunning(id) ==
  [id |-> id, delivery |-> jobs[id].attemptsMade, pc |-> "writeFile",
   proc |-> "none", ran |-> NoProg, timer |-> "unset", duration |-> 0,
   err |-> NoError, escaped |-> FALSE, nterm |-> 0]

\* worker.ts:23-27  the invocation as it starts, before its first await, for
\* the delivery of the job that it was called with
NewHandler(id) ==
  [id |-> id, delivery |-> jobs[id].attemptsMade, pc |-> "start",
   proc |-> "none", ran |-> NoProg, timer |-> "unset", duration |-> 0,
   err |-> NoError, escaped |-> FALSE, nterm |-> 0]

Replace(h, g) == handlers' = (handlers \ {h}) \cup {g}

\* TEMP_DIR with no file in it
NoFiles == [n \in {} |-> ""]

\* The files after `text` has become the content of file `name`
Written(fs, name, text) ==
  [n \in DOMAIN fs \cup {name} |-> IF n = name THEN text ELSE fs[n]]

\* worker.ts:78-80  an error thrown inside the try enters the catch block,
\* which reads the duration before its first await
Thrown(h, msg) ==
  {[h EXCEPT !.pc = "catch", !.err = msg, !.duration = d] : d \in Durations(h)}

\* The invocation is over: the queue settles the job (a resolved handler
\* completes it, a rejected one fails the attempt), and a subprocess that was
\* killed and has not exited yet is left behind
Settle(h, rejected) ==
  /\ handlers' = handlers \ {h}
  /\ jobs' = IF rejected THEN FailJob(jobs, h.id) ELSE CompleteJob(jobs, h.id)
  /\ orphans' = IF h.proc = "killed" THEN orphans + 1 ELSE orphans

Lease_Unbounded ==
  /\ wait # <<>>
  /\ handlers' = handlers \cup {NewHandler(Head(wait))}
  /\ jobs' = [jobs EXCEPT ![Head(wait)].state = "active",
                          ![Head(wait)].attemptsStarted = @ + 1]
  /\ wait' = Tail(wait)
  /\ UNCHANGED <<reply, sessions, executions, pendingRun, files, orphans,
                 cleanupLog, faults>>

\* The Worker takes the oldest waiting job while fewer than `concurrency`
\* invocations are in flight (worker.ts:104-107)
Lease ==
  /\ wait # <<>>
  /\ Cardinality(handlers) < concurrency
  /\ handlers' = handlers \cup {NewHandler(Head(wait))}
  /\ jobs' = [jobs EXCEPT ![Head(wait)].state = "active",
                          ![Head(wait)].attemptsStarted = @ + 1]
  /\ wait' = Tail(wait)
  /\ UNCHANGED <<reply, sessions, executions, pendingRun, files, orphans, cleanupLog,
                 faults>>

\* The backoff delay of a failed attempt is over
Promote(id) ==
  /\ id \in DOMAIN jobs
  /\ jobs[id].state = "delayed"
  /\ jobs' = [jobs EXCEPT ![id].state = "waiting"]
  /\ wait' = Append(wait, id)
  /\ UNCHANGED <<reply, sessions, executions, pendingRun, handlers, files, orphans,
                 cleanupLog, faults>>

RunningWrite_SkipsProcessed(h, ok) ==
  /\ h \in handlers /\ h.pc = "start"
  /\ MayFail(~ok)
  /\ CountFault(~ok)
  /\ executions' = IF ok /\ executions[h.id].status = "QUEUED"
                   THEN UpdateExecutionStatus(executions, h.id, "RUNNING", Null,
                                              Null, Null)
                   ELSE executions
  /\ Replace(h, IF ~ok THEN [h EXCEPT !.pc = "done", !.escaped = TRUE]
                ELSE IF executions[h.id].status # "QUEUED"
                THEN [h EXCEPT !.pc = "done"]
                ELSE [h EXCEPT !.pc = "startRead"])
  /\ UNCHANGED <<reply, sessions, pendingRun, jobs, wait, files, orphans, cleanupLog>>

RunningWrite_InsideTry(h, ok) ==
  /\ h \in handlers /\ h.pc = "start"
  /\ MayFail(~ok)
  /\ CountFault(~ok)
  /\ executions' = IF ok
                   THEN UpdateExecutionStatus(executions, h.id, "RUNNING", Null,
                                              Null, Null)
                   ELSE executions
  /\ \E g \in IF ok THEN {[h EXCEPT !.pc = "startRead"]}
             ELSE Thrown(h, StoreErrMsg) : Replace(h, g)
  /\ UNCHANGED <<reply, sessions, pendingRun, jobs, wait, files, orphans, cleanupLog>>

\* worker.ts:29  await db.updateExecutionStatus(executionId, "RUNNING", null,
\* null, null), outside the try; part_001:99-102  its UPDATE is applied, or
\* the query rejects and with it the handler
RunningWrite(h, ok) ==
  /\ h \in handlers /\ h.pc = "start"
  /\ MayFail(~ok)
  /\ CountFault(~ok)
  /\ executions' = IF ok
                   THEN UpdateExecutionStatus(executions, h.id, "RUNNING", Null,
                                              Null, Null)
                   ELSE executions
  /\ Replace(h, IF ok THEN [h EXCEPT !.pc = "startRead"]
                ELSE [h EXCEPT !.pc = "done", !.escaped = TRUE])
  /\ UNCHANGED <<reply, sessions, pendingRun, jobs, wait, files, orphans, cleanupLog>>

\* worker.ts:29, part_001:103  the SELECT of getExecution that ends the
\* RUNNING write is answered and the handler goes on, or it rejects and with
\* it the handler
RunningRead(h, ok) ==
  /\ h \in handlers /\ h.pc = "startRead"
  /\ MayFail(~ok)
  /\ CountFault(~ok)
  /\ Replace(h, IF ok THEN [h EXCEPT !.pc = "writeFile"]
                ELSE [h EXCEPT !.pc = "done", !.escaped = TRUE])
  /\ UNCHANGED <<reply, sessions, executions, pendingRun, jobs, wait, files, orphans,
                 cleanupLog>>

\* worker.ts:35  await writeFile(filePath, code), first half: the file is
\* opened for writing, which creates it or truncates the one that is there;
\* or the open rejects and nothing is created
WriteFileOpen(h, ok) ==
  /\ h \in handlers /\ h.pc = "writeFile"
  /\ MayFail(~ok)
  /\ CountFault(~ok)
  /\ files' = IF ok THEN Written(files, FileName(h.id, jobs[h.id].language), NoText)
              ELSE files
  /\ \E g \in IF ok THEN {[h EXCEPT !.pc = "writing"]}
             ELSE Thrown(h, WriteErrMsg) : Replace(h, g)
  /\ UNCHANGED <<reply, sessions, executions, pendingRun, jobs, wait, orphans,
                 cleanupLog>>

\* worker.ts:35  await writeFile(filePath, code), second half: the text is
\* written to the open file (one that was unlinked meanwhile stays gone) and
\* the call resolves; or the write rejects and leaves the file as it is
WriteFile(h, ok) ==
  /\ h \in handlers /\ h.pc = "writing"
  /\ MayFail(~ok)
  /\ CountFault(~ok)
  /\ LET name == FileName(h.id, jobs[h.id].language) IN
       files' = IF ok /\ name \in DOMAIN files
                THEN Written(files, name, jobs[h.id].code)
                ELSE files
  /\ \E g \in IF ok THEN {[h EXCEPT !.pc = "spawn"]}
             ELSE Thrown(h, WriteErrMsg) : Replace(h, g)
  /\ UNCHANGED <<reply, sessions, executions, pendingRun, jobs, wait, orphans,
                 cleanupLog>>

\* worker.ts:37-62  the command is resolved, the subprocess is spawned, the
\* timer is armed (AbortSignal.timeout) and the race starts, all before the
\* next await
Spawn(h, ok) ==
  /\ h \in handlers /\ h.pc = "spawn"
  /\ MayFail(~ok)
  /\ CountFault(~ok)
  /\ ~ok => Cmd(jobs[h.id].language) # NoCmd
  /\ \E g \in IF Cmd(jobs[h.id].language) = NoCmd
             THEN Thrown(h, UnsupportedMsg(jobs[h.id].language))
             ELSE IF ~ok
             THEN Thrown(h, SpawnErrMsg)
             ELSE {[h EXCEPT !.pc = "race", !.proc = "alive", !.timer = "armed"]} :
       Replace(h, g)
  /\ UNCHANGED <<reply, sessions, executions, pendingRun, jobs, wait, files, orphans,
                 cleanupLog>>

\* worker.ts:47  the subprocess `cmd filePath`: the interpreter opens the
\* file, some time after the spawn, and runs what it finds there: the content
\* of the file as it is then, or nothing when the file has been unlinked since
ProcOpens(h) ==
  /\ h \in handlers /\ h.proc = "alive" /\ h.ran = NoProg
  /\ Replace(h, [h EXCEPT !.ran = IF FileName(h.id, jobs[h.id].language) \in DOMAIN files
                                  THEN files[FileName(h.id, jobs[h.id].language)]
                                  ELSE NoFile])
  /\ UNCHANGED <<reply, sessions, executions, pendingRun, jobs, wait, files, orphans,
                 cleanupLog, faults>>

\* worker.ts:54-55  proc.exited resolves first: the race resolves and the
\* handler goes on to read the streams
ProcExited(h) ==
  /\ h \in handlers /\ h.pc = "race" /\ h.proc = "alive"
  /\ h.ran # NoProg /\ ProgExits(h.ran)
  /\ Replace(h, [h EXCEPT !.pc = "drain", !.proc = "exited"])
  /\ UNCHANGED <<reply, sessions, executions, pendingRun, jobs, wait, files, orphans,
                 cleanupLog, faults>>

TimerFires_Never(h) ==
  /\ FALSE
  /\ UNCHANGED vars

TimerFires_RejectsOnly(h) ==
  /\ h \in handlers /\ h.pc = "race" /\ h.proc = "alive"
  /\ \E g \in Thrown([h EXCEPT !.timer = "fired"], TimedOutMsg) : Replace(h, g)
  /\ UNCHANGED <<reply, sessions, executions, pendingRun, jobs, wait, files,
                 orphans, cleanupLog, faults>>

\* worker.ts:56-61  the timer fires first: proc.kill() and the race rejects
TimerFires(h) ==
  /\ h \in handlers /\ h.pc = "race" /\ h.proc = "alive"
  /\ \E g \in Thrown([h EXCEPT !.proc = "killed", !.timer = "fired"], TimedOutMsg) :
       Replace(h, g)
  /\ UNCHANGED <<reply, sessions, executions, pendingRun, jobs, wait, files, orphans,
                 cleanupLog, faults>>

\* The awaits of the handler after the race
AfterRace ==
  {"drain", "completed", "completedRead", "catch", "catchRead", "finally",
   "unlink", "done"}

LateTimerFires_Rejects(h) ==
  /\ h \in handlers /\ h.timer = "armed"
  /\ h.pc \in AfterRace
  /\ \E g \in Thrown([h EXCEPT !.timer = "fired"], TimedOutMsg) : Replace(h, g)
  /\ UNCHANGED <<reply, sessions, executions, pendingRun, jobs, wait, files,
                 orphans, cleanupLog, faults>>

\* worker.ts:56-61  the timer fires after proc.exited has settled the race:
\* proc.kill() finds the subprocess gone and reject() a promise whose race
\* is over; the handler goes on as it was
LateTimerFires(h) ==
  /\ h \in handlers /\ h.timer = "armed"
  /\ h.pc \in AfterRace
  /\ Replace(h, [h EXCEPT !.timer = "fired"])
  /\ UNCHANGED <<reply, sessions, executions, pendingRun, jobs, wait, files,
                 orphans, cleanupLog, faults>>

\* worker.ts:64-66  both streams are read to their end and the duration is
\* taken, or a read rejects
Drain(h, ok) ==
  /\ h \in handlers /\ h.pc = "drain"
  /\ MayFail(~ok)
  /\ CountFault(~ok)
  /\ \E g \in IF ok
             THEN {[h EXCEPT !.pc = "completed", !.duration = d] : d \in Durations(h)}
             ELSE Thrown(h, DrainErrMsg) : Replace(h, g)
  /\ UNCHANGED <<reply, sessions, executions, pendingRun, jobs, wait, files, orphans,
                 cleanupLog>>

CompletedWrite_RunsSessionCode(h, ok) ==
  /\ h \in handlers /\ h.pc = "completed"
  /\ MayFail(~ok)
  /\ CountFault(~ok)
  /\ executions' =
       IF ok
       THEN LET code == sessions[executions[h.id].session_id].source_code IN
              UpdateExecutionStatus(executions, h.id,
                StatusOfExit(ProgExitCode(code)), Some(ProgStdout(code)),
                OrNull(ProgStderr(code)), Some(h.duration))
       ELSE executions
  /\ \E g \in IF ok THEN {[h EXCEPT !.pc = "completedRead", !.nterm = @ + 1]}
             ELSE Thrown([h EXCEPT !.nterm = @ + 1], StoreErrMsg) : Replace(h, g)
  /\ UNCHANGED <<reply, sessions, pendingRun, jobs, wait, files, orphans, cleanupLog>>

CompletedWrite_ThrowEscapes(h, ok) ==
  /\ h \in handlers /\ h.pc = "completed"
  /\ MayFail(~ok)
  /\ CountFault(~ok)
  /\ executions' =
       IF ok
       THEN LET code == h.ran IN
              UpdateExecutionStatus(executions, h.id,
                StatusOfExit(ProgExitCode(code)), Some(ProgStdout(code)),
                OrNull(ProgStderr(code)), Some(h.duration))
       ELSE executions
  /\ Replace(h, IF ok THEN [h EXCEPT !.pc = "completedRead", !.nterm = @ + 1]
                ELSE [h EXCEPT !.pc = "finally", !.err = StoreErrMsg,
                               !.escaped = TRUE, !.nterm = @ + 1])
  /\ UNCHANGED <<reply, sessions, pendingRun, jobs, wait, files, orphans, cleanupLog>>

\* worker.ts:70-76, part_001:99-102  the UPDATE of the COMPLETED write, with
\* what the streams held and the duration taken before it, is applied, or the
\* query rejects, inside the try
CompletedWrite(h, ok) ==
  /\ h \in handlers /\ h.pc = "completed"
  /\ MayFail(~ok)
  /\ CountFault(~ok)
  /\ executions' =
       IF ok
       THEN LET code == h.ran IN
              UpdateExecutionStatus(executions, h.id,
                StatusOfExit(ProgExitCode(code)), Some(ProgStdout(code)),
                OrNull(ProgStderr(code)), Some(h.duration))
       ELSE executions
  /\ \E g \in IF ok THEN {[h EXCEPT !.pc = "completedRead", !.nterm = @ + 1]}
             ELSE Thrown([h EXCEPT !.nterm = @ + 1], StoreErrMsg) : Replace(h, g)
  /\ UNCHANGED <<reply, sessions, pendingRun, jobs, wait, files, orphans, cleanupLog>>

\* worker.ts:70-76, part_001:103  the SELECT that ends the COMPLETED write is
\* answered, or it rejects and the catch block is entered with the row
\* COMPLETED
CompletedRead(h, ok) ==
  /\ h \in handlers /\ h.pc = "completedRead"
  /\ MayFail(~ok)
  /\ CountFault(~ok)
  /\ \E g \in IF ok THEN {[h EXCEPT !.pc = "finally"]}
             ELSE Thrown(h, StoreErrMsg) : Replace(h, g)
  /\ UNCHANGED <<reply, sessions, executions, pendingRun, jobs, wait, files, orphans,
                 cleanupLog>>

CatchRead_Rethrows(h, ok) ==
  /\ h \in handlers /\ h.pc = "catchRead"
  /\ MayFail(~ok)
  /\ CountFault(~ok)
  /\ Replace(h, [h EXCEPT !.pc = "finally", !.escaped = TRUE])
  /\ UNCHANGED <<reply, sessions, executions, pendingRun, jobs, wait, files, orphans,
                 cleanupLog>>

\* worker.ts:82-95, part_001:99-102  the catch block: the UPDATE of the
\* FAILED or TIMEOUT write, with the duration taken before it, is applied, or
\* the query rejects: the rejection leaves the handler after the finally block
CatchWrite(h, ok) ==
  /\ h \in handlers /\ h.pc = "catch"
  /\ MayFail(~ok)
  /\ CountFault(~ok)
  /\ executions' = IF ok
                   THEN UpdateExecutionStatus(executions, h.id, Classify(h.err),
                                              Null, Some(h.err), Some(h.duration))
                   ELSE executions
  /\ Replace(h, IF ok THEN [h EXCEPT !.pc = "catchRead", !.nterm = @ + 1]
                ELSE [h EXCEPT !.pc = "finally", !.escaped = TRUE,
                               !.nterm = @ + 1])
  /\ UNCHANGED <<reply, sessions, pendingRun, jobs, wait, files, orphans, cleanupLog>>

\* worker.ts:89-95, part_001:103  the SELECT that ends the catch block's
\* write is answered, or it rejects: the rejection leaves the handler after
\* the finally block
CatchRead(h, ok) ==
  /\ h \in handlers /\ h.pc = "catchRead"
  /\ MayFail(~ok)
  /\ CountFault(~ok)
  /\ Replace(h, [h EXCEPT !.pc = "finally", !.escaped = ~ok])
  /\ UNCHANGED <<reply, sessions, executions, pendingRun, jobs, wait, files, orphans,
                 cleanupLog>>

Unlinked_Keeps(fs, name, ok) == fs

\* worker.ts:98  unlink(filePath): the file is removed, or the call rejects
Unlinked(fs, name, ok) ==
  IF ok THEN [n \in DOMAIN fs \ {name} |-> fs[n]] ELSE fs

\* worker.ts:96-98  the finally block is entered: existsSync(filePath); the
\* unlink is called when the file is there, else the handler is over
Finally(h) ==
  /\ h \in handlers /\ h.pc = "finally"
  /\ Replace(h, IF FileName(h.id, jobs[h.id].language) \in DOMAIN files
                THEN [h EXCEPT !.pc = "unlink"]
                ELSE [h EXCEPT !.pc = "done"])
  /\ UNCHANGED <<reply, sessions, executions, pendingRun, jobs, wait, files, orphans,
                 cleanupLog, faults>>

Unlink_RethrowsCleanup(h, ok) ==
  /\ h \in handlers /\ h.pc = "unlink"
  /\ LET name == FileName(h.id, jobs[h.id].language) IN
       /\ ok => name \in DOMAIN files
       /\ MayFail(~ok /\ name \in DOMAIN files)
       /\ CountFault(~ok /\ name \in DOMAIN files)
       /\ files' = Unlinked(files, name, ok)
  /\ cleanupLog' = IF ok THEN cleanupLog ELSE cleanupLog \cup {h.id}
  /\ Replace(h, [h EXCEPT !.pc = "done", !.escaped = @ \/ ~ok])
  /\ UNCHANGED <<reply, sessions, executions, pendingRun, jobs, wait, orphans>>

\* worker.ts:98-101  await unlink(filePath): the file is removed; or the call
\* rejects, because the file system fails or because the file is no longer
\* there (ENOENT), and the rejection is logged; then the handler is over
Unlink(h, ok) ==
  /\ h \in handlers /\ h.pc = "unlink"
  /\ LET name == FileName(h.id, jobs[h.id].language) IN
       /\ ok => name \in DOMAIN files
       /\ MayFail(~ok /\ name \in DOMAIN files)
       /\ CountFault(~ok /\ name \in DOMAIN files)
       /\ files' = Unlinked(files, name, ok)
  /\ cleanupLog' = IF ok THEN cleanupLog ELSE cleanupLog \cup {h.id}
  /\ Replace(h, [h EXCEPT !.pc = "done"])
  /\ UNCHANGED <<reply, sessions, executions, pendingRun, jobs, wait, orphans>>

\* The handler has resolved or rejected: the queue settles the job
Return(h) ==
  /\ h \in handlers /\ h.pc = "done"
  /\ Settle(h, h.escaped)
  /\ UNCHANGED <<reply, sessions, executions, pendingRun, wait, files, cleanupLog,
                 faults>>

\* A subprocess that was sent the kill signal exits, while its handler is
\* still in flight or after it
KilledExits(h) ==
  /\ h \in handlers /\ h.proc = "killed"
  /\ Replace(h, [h EXCEPT !.proc = "exited"])
  /\ UNCHANGED <<reply, sessions, executions, pendingRun, jobs, wait, files, orphans,
                 cleanupLog, faults>>

OrphanExits ==
  /\ orphans > 0
  /\ orphans' = orphans - 1
  /\ UNCHANGED <<reply, sessions, executions, pendingRun, jobs, wait, handlers, files,
                 cleanupLog, faults>>

----------------------------------------------------------------------------
(* The system *)

Empty == <<>>

Init ==
  /\ sessions = Empty
  /\ executions = Empty
  /\ pendingRun = {}
  /\ jobs = Empty
  /\ wait = <<>>
  /\ handlers = {}
  /\ files = NoFiles
  /\ orphans = 0
  /\ cleanupLog = {}
  /\ faults = 0
  /\ reply = NoReply

WorkerNext ==
  \/ Lease
  \/ \E id \in DOMAIN jobs : Promote(id)
  \/ \E h \in handlers, ok \in BOOLEAN : RunningWrite(h, ok)
  \/ \E h \in handlers, ok \in BOOLEAN : RunningRead(h, ok)
  \/ \E h \in handlers, ok \in BOOLEAN : WriteFileOpen(h, ok)
  \/ \E h \in handlers, ok \in BOOLEAN : WriteFile(h, ok)
  \/ \E h \in handlers, ok \in BOOLEAN : Spawn(h, ok)
  \/ \E h \in handlers : ProcOpens(h)
  \/ \E h \in handlers : ProcExited(h)
  \/ \E h \in handlers : TimerFires(h)
  \/ \E h \in handlers, ok \in BOOLEAN : Drain(h, ok)
  \/ \E h \in handlers, ok \in BOOLEAN : CompletedWrite(h, ok)
  \/ \E h \in handlers, ok \in BOOLEAN : CompletedRead(h, ok)
  \/ \E h \in handlers, ok \in BOOLEAN : CatchWrite(h, ok)
  \/ \E h \in handlers, ok \in BOOLEAN : CatchRead(h, ok)
  \/ \E h \in handlers : Finally(h)
  \/ \E h \in handlers, ok \in BOOLEAN : Unlink(h, ok)
  \/ \E h \in handlers : Return(h)
  \/ \E h \in handlers : KilledExits(h)
  \/ OrphanExits

ApiNext ==
  \/ \E l \in Languages, c \in Codes : CreateSession(l, c)
  \/ \E sid \in DOMAIN sessions : RunGetSession(sid)
  \/ \E p \in pendingRun, ok \in BOOLEAN : RunInsert(p, ok)
  \/ \E p \in pendingRun, ok \in BOOLEAN : RunRead(p, ok)
  \/ \E p \in pendingRun, ok \in BOOLEAN : RunEnqueue(p, ok)

Next == ApiNext \/ WorkerNext

Spec == Init /\ [][Next]_vars

----------------------------------------------------------------------------
(* The pool under load: PoolJobs runs of one session whose program never  *)
(* exits by itself have been accepted by the API.  All but the last two    *)
(* have been leased and have timed out: their subprocesses were sent the   *)
(* kill signal, their rows are TIMEOUT, their files are removed and their  *)
(* handlers are about to return; the last two wait in the queue.  The      *)
(* store, the file system and the spawn do not fail.  The steps are those  *)
(* of WorkerNext that such jobs can take.                                  *)

InitPool ==
  /\ sessions = (1 :> [language |-> "python", source_code |-> "loop",
                       status |-> "ACTIVE"])
  /\ executions = [id \in 1..PoolJobs |->
                     IF id <= PoolJobs - 2
                     THEN [session_id |-> 1, status |-> "TIMEOUT", stdout |-> Null,
                           stderr |-> Some(TimedOutMsg),
                           execution_time_ms |-> Some(EXECUTION_TIMEOUT_MS)]
                     ELSE [session_id |-> 1, status |-> "QUEUED", stdout |-> Null,
                           stderr |-> Null, execution_time_ms |-> Null]]
  /\ pendingRun = {}
  /\ jobs = [id \in 1..PoolJobs |->
               IF id <= PoolJobs - 2
               THEN [NewJob("python", "loop") EXCEPT !.state = "active",
                                                      !.attemptsStarted = 1]
               ELSE NewJob("python", "loop")]
  /\ wait = <<PoolJobs - 1, PoolJobs>>
  /\ handlers = {[id |-> id, delivery |-> 0, pc |-> "done", proc |-> "killed",
                  ran |-> "loop", timer |-> "fired",
                  duration |-> EXECUTION_TIMEOUT_MS, err |-> TimedOutMsg,
                  escaped |-> FALSE, nterm |-> 1] : id \in 1..(PoolJobs - 2)}
  /\ files = NoFiles
  /\ orphans = 0
  /\ cleanupLog = {}
  /\ faults = MaxFaults
  /\ reply = NoReply

NextPool ==
  \/ Lease
  \/ \E h \in handlers, ok \in BOOLEAN : RunningWrite(h, ok)
  \/ \E h \in handlers, ok \in BOOLEAN : RunningRead(h, ok)
  \/ \E h \in handlers, ok \in BOOLEAN : WriteFileOpen(h, ok)
  \/ \E h \in handlers, ok \in BOOLEAN : WriteFile(h, ok)
  \/ \E h \in handlers, ok \in BOOLEAN : Spawn(h, ok)
  \/ \E h \in handlers : ProcOpens(h)
  \/ \E h \in handlers : TimerFires(h)
  \/ \E h \in handlers, ok \in BOOLEAN : CatchWrite(h, ok)
  \/ \E h \in handlers, ok \in BOOLEAN : CatchRead(h, ok)
  \/ \E h \in handlers : Finally(h)
  \/ \E h \in handlers, ok \in BOOLEAN : Unlink(h, ok)
  \/ \E h \in handlers : Return(h)
  \/ \E h \in handlers : KilledExits(h)
  \/ OrphanExits

SpecPool == InitPool /\ [][NextPool]_vars

----------------------------------------------------------------------------
(* The worker process crashes: the queue is durable, the leases of the jobs *)
(* in flight expire and the jobs are delivered again.  One run of           *)
(* one session has been accepted by the API and waits in the queue.         *)

\* The worker process dies with its handler invocations and timers; the
\* subprocesses it spawned are not waited for any more, the files of TEMP_DIR
\* and the rows of the store stay as they are, the jobs stay active under the
\* dead worker's lease
Crash ==
  /\ handlers # {}
  /\ MayFail(TRUE)
  /\ CountFault(TRUE)
  /\ handlers' = {}
  /\ orphans' = orphans +
       Cardinality({h \in handlers : h.proc \in {"alive", "killed"}})
  /\ UNCHANGED <<reply, sessions, executions, pendingRun, jobs, wait, files, cleanupLog>>

\* The lease of an active job is lost: the delivery has failed, and the queue
\* treats it as it treats an attempt that failed.  The job is retried after
\* the backoff delay while attempts remain and is retained as failed after
\* the last one; a handler invocation that still works on it goes on
LeaseExpires(id) ==
  /\ id \in DOMAIN jobs
  /\ jobs[id].state = "active"
  /\ jobs' = [FailJob(jobs, id) EXCEPT ![id].stalled = @ + 1]
  /\ UNCHANGED <<reply, sessions, executions, pendingRun, wait, handlers, files,
                 orphans, cleanupLog, faults>>

\* The job is active under the lease of a worker that is gone
Stranded(id) ==
  /\ id \in DOMAIN jobs
  /\ jobs[id].state = "active"
  /\ \A h \in handlers : h.id # id

\* The invocation holds the lease of its job: the job is active in the
\* delivery that the invocation was called with
Current(h) ==
  /\ jobs[h.id].state = "active"
  /\ h.delivery = jobs[h.id].attemptsMade

InitCrash ==
  /\ \E l \in Languages, c \in Codes :
       /\ sessions = (1 :> [language |-> l, source_code |-> c, status |-> "ACTIVE"])
       /\ jobs = (1 :> NewJob(l, c))
  /\ executions = (1 :> [session_id |-> 1, status |-> "QUEUED", stdout |-> Null,
                         stderr |-> Null, execution_time_ms |-> Null])
  /\ pendingRun = {}
  /\ wait = <<1>>
  /\ handlers = {}
  /\ files = NoFiles
  /\ orphans = 0
  /\ cleanupLog = {}
  /\ faults = 0
  /\ reply = NoReply

NextCrash ==
  \/ WorkerNext
  \/ Crash
  \/ \E id \in DOMAIN jobs : Stranded(id) /\ LeaseExpires(id)

SpecCrash == InitCrash /\ [][NextCrash]_vars

----------------------------------------------------------------------------
(* The API with all of its operations, next to a worker whose store, file  *)
(* system and spawn calls do not fail.  The sessions are python sessions    *)
(* whose source text exits by itself.  A response that the API has computed *)
(* is on its way until the client receives it, and the API and the worker   *)
(* go on meanwhile.                                                         *)

ApiLanguages == {"python"}
ApiCodes == {"ok", "bad"}

InitApi ==
  /\ sessions = Empty
  /\ executions = Empty
  /\ pendingRun = {}
  /\ jobs = Empty
  /\ wait = <<>>
  /\ handlers = {}
  /\ files = NoFiles
  /\ orphans = 0
  /\ cleanupLog = {}
  /\ faults = MaxFaults
  /\ reply = NoReply

\* The client receives the response
ReplyReceived ==
  /\ reply # NoReply
  /\ reply' = NoReply
  /\ UNCHANGED <<sessions, executions, pendingRun, jobs, wait, handlers, files,
                 orphans, cleanupLog, faults>>

NextApi ==
  \/ ReplyReceived
  \/ \E l \in ApiLanguages, c \in ApiCodes : CreateSession(l, c)
  \/ \E sid \in DOMAIN sessions, c \in ApiCodes : UpdateSessionCode(sid, c)
  \/ \E sid \in 1..MaxSessions :
       SessionNotFound("PATCH /code-sessions/:id", sid)
  \/ \E sid \in 1..MaxSessions :
       SessionNotFound("POST /code-sessions/:id/run", sid)
  \/ \E sid \in 1..MaxSessions : RunGetSession(sid)
  \/ \E p \in pendingRun : RunInsert(p, TRUE)
  \/ \E p \in pendingRun : RunRead(p, TRUE)
  \/ \E p \in pendingRun : RunEnqueue(p, TRUE)
  \/ \E id \in 1..MaxExec : GetExecution(id)
  \/ Lease
  \/ \E h \in handlers : RunningWrite(h, TRUE)
  \/ \E h \in handlers : RunningRead(h, TRUE)
  \/ \E h \in handlers : WriteFileOpen(h, TRUE)
  \/ \E h \in handlers : WriteFile(h, TRUE)
  \/ \E h \in handlers : Spawn(h, TRUE)
  \/ \E h \in handlers : ProcOpens(h)
  \/ \E h \in handlers : ProcExited(h)
  \/ \E h \in handlers : TimerFires(h)
  \/ \E h \in handlers : Drain(h, TRUE)
  \/ \E h \in handlers : CompletedWrite(h, TRUE)
  \/ \E h \in handlers : CompletedRead(h, TRUE)
  \/ \E h \in handlers : CatchWrite(h, TRUE)
  \/ \E h \in handlers : CatchRead(h, TRUE)
  \/ \E h \in handlers : Finally(h)
  \/ \E h \in handlers : Unlink(h, TRUE)
  \/ \E h \in handlers : Return(h)
  \/ \E h \in handlers : KilledExits(h)
  \/ OrphanExits

SpecApi == InitApi /\ [][NextApi]_vars

----------------------------------------------------------------------------
(* Two executions side by side: two runs of one session, the second one    *)
(* possibly after a code update, have been accepted by the API and wait in *)
(* the queue.                                                               *)

InitPair ==
  /\ \E l \in Languages, c1 \in Codes, c2 \in Codes :
       /\ sessions = (1 :> [language |-> l, source_code |-> c2, status |-> "ACTIVE"])
       /\ jobs = (1 :> NewJob(l, c1)) @@ (2 :> NewJob(l, c2))
  /\ executions = [id \in {1, 2} |->
                     [session_id |-> 1, status |-> "QUEUED", stdout |-> Null,
                      stderr |-> Null, execution_time_ms |-> Null]]
  /\ pendingRun = {}
  /\ wait = <<1, 2>>
  /\ handlers = {}
  /\ files = NoFiles
  /\ orphans = 0
  /\ cleanupLog = {}
  /\ faults = 0
  /\ reply = NoReply

SpecPair == InitPair /\ [][WorkerNext]_vars

----------------------------------------------------------------------------
(* The race of subprocess exit and timer, with the timer that lost still   *)
(* armed: it fires while the handler reads the streams, writes the result  *)
(* or cleans up.  The job is that of InitCrash.                             *)

NextRace ==
  \/ WorkerNext
  \/ \E h \in handlers : LateTimerFires(h)

SpecRace == InitCrash /\ [][NextRace]_vars

----------------------------------------------------------------------------
(* The pool kept busy: BusyJobs runs of one session whose program exits by *)
(* itself have been accepted by the API.  All but the last two have been   *)
(* leased and have run: their rows are COMPLETED, their files are removed  *)
(* and their handlers are about to return; the last two wait in the queue. *)
(* No call fails and no subprocess outlives the timeout; the store and the *)
(* file system answer at any speed.  The steps are those of WorkerNext     *)
(* that such jobs take.                                                     *)

InitBusy ==
  /\ sessions = (1 :> [language |-> "python", source_code |-> "ok",
                       status |-> "ACTIVE"])
  /\ executions = [id \in 1..BusyJobs |->
                     IF id <= BusyJobs - 2
                     THEN [session_id |-> 1, status |-> "COMPLETED",
                           stdout |-> Some(ProgStdout("ok")),
                           stderr |-> OrNull(ProgStderr("ok")),
                           execution_time_ms |-> Some(0)]
                     ELSE [session_id |-> 1, status |-> "QUEUED", stdout |-> Null,
                           stderr |-> Null, execution_time_ms |-> Null]]
  /\ pendingRun = {}
  /\ jobs = [id \in 1..BusyJobs |->
               IF id <= BusyJobs - 2
               THEN [NewJob("python", "ok") EXCEPT !.state = "active",
                                                    !.attemptsStarted = 1]
               ELSE NewJob("python", "ok")]
  /\ wait = <<BusyJobs - 1, BusyJobs>>
  /\ handlers = {[id |-> id, delivery |-> 0, pc |-> "done", proc |-> "exited",
                  ran |-> "ok", timer |-> "armed", duration |-> 0,
                  err |-> NoError, escaped |-> FALSE, nterm |-> 1] :
                  id \in 1..(BusyJobs - 2)}
  /\ files = NoFiles
  /\ orphans = 0
  /\ cleanupLog = {}
  /\ faults = MaxFaults
  /\ reply = NoReply

NextBusy ==
  \/ Lease
  \/ \E h \in handlers, ok \in BOOLEAN : RunningWrite(h, ok)
  \/ \E h \in handlers, ok \in BOOLEAN : RunningRead(h, ok)
  \/ \E h \in handlers, ok \in BOOLEAN : WriteFileOpen(h, ok)
  \/ \E h \in handlers, ok \in BOOLEAN : WriteFile(h, ok)
  \/ \E h \in handlers, ok \in BOOLEAN : Spawn(h, ok)
  \/ \E h \in handlers : ProcOpens(h)
  \/ \E h \in handlers : ProcExited(h)
  \/ \E h \in handlers, ok \in BOOLEAN : Drain(h, ok)
  \/ \E h \in handlers, ok \in BOOLEAN : CompletedWrite(h, ok)
  \/ \E h \in handlers, ok \in BOOLEAN : CompletedRead(h, ok)
  \/ \E h \in handlers : Finally(h)
  \/ \E h \in handlers, ok \in BOOLEAN : Unlink(h, ok)
  \/ \E h \in handlers : Return(h)

SpecBusy == InitBusy /\ [][NextBusy]_vars

----------------------------------------------------------------------------
(* One job delivered twice at overlapping times: the lease of the job is    *)
(* lost while its handler invocation is still at work, the queue delivers   *)
(* the job again, and a second invocation runs next to the first.  One run  *)
(* has been accepted by the API and waits in the queue; the store, the file *)
(* system and the spawn do not fail.                                        *)

\* The handler of a delivery whose lease is lost has resolved or rejected:
\* the queue does not take its outcome
ReturnLeaseLost(h) ==
  /\ h \in handlers /\ h.pc = "done"
  /\ ~Current(h)
  /\ handlers' = handlers \ {h}
  /\ orphans' = IF h.proc = "killed" THEN orphans + 1 ELSE orphans
  /\ UNCHANGED <<reply, sessions, executions, pendingRun, jobs, wait, files,
                 cleanupLog, faults>>

InitOverlap ==
  /\ \E l \in Languages, c \in Codes :
       /\ sessions = (1 :> [language |-> l, source_code |-> c, status |-> "ACTIVE"])
       /\ jobs = (1 :> NewJob(l, c))
  /\ executions = (1 :> [session_id |-> 1, status |-> "QUEUED", stdout |-> Null,
                         stderr |-> Null, execution_time_ms |-> Null])
  /\ pendingRun = {}
  /\ wait = <<1>>
  /\ handlers = {}
  /\ files = NoFiles
  /\ orphans = 0
  /\ cleanupLog = {}
  /\ faults = MaxFaults
  /\ reply = NoReply

\* The steps of the worker and of the queue next to it
OverlapSteps ==
  \/ Lease
  \/ \E id \in DOMAIN jobs : Promote(id)
  \/ \E h \in handlers, ok \in BOOLEAN : RunningWrite(h, ok)
  \/ \E h \in handlers, ok \in BOOLEAN : RunningRead(h, ok)
  \/ \E h \in handlers, ok \in BOOLEAN : WriteFileOpen(h, ok)
  \/ \E h \in handlers, ok \in BOOLEAN : WriteFile(h, ok)
  \/ \E h \in handlers, ok \in BOOLEAN : Spawn(h, ok)
  \/ \E h \in handlers : ProcOpens(h)
  \/ \E h \in handlers : ProcExited(h)
  \/ \E h \in handlers : TimerFires(h)
  \/ \E h \in handlers, ok \in BOOLEAN : Drain(h, ok)
  \/ \E h \in handlers, ok \in BOOLEAN : CompletedWrite(h, ok)
  \/ \E h \in handlers, ok \in BOOLEAN : CompletedRead(h, ok)
  \/ \E h \in handlers, ok \in BOOLEAN : CatchWrite(h, ok)
  \/ \E h \in handlers, ok \in BOOLEAN : CatchRead(h, ok)
  \/ \E h \in handlers : Finally(h)
  \/ \E h \in handlers, ok \in BOOLEAN : Unlink(h, ok)
  \/ \E h \in handlers : Current(h) /\ Return(h)
  \/ \E h \in handlers : ReturnLeaseLost(h)
  \/ \E h \in handlers : KilledExits(h)
  \/ OrphanExits

NextOverlap ==
  \/ OverlapSteps
  \/ \E id \in DOMAIN jobs : LeaseExpires(id)

SpecOverlap == InitOverlap /\ [][NextOverlap]_vars

----------------------------------------------------------------------------
(* Delivery under every failure at once: the calls of the handler reject,   *)
(* the worker process crashes, and the lease of a job is lost with its      *)
(* handler invocation gone or still at work.  The job is that of InitCrash. *)

NextDelivery ==
  \/ NextOverlap
  \/ Crash

SpecDelivery == InitCrash /\ [][NextDelivery]_vars

----------------------------------------------------------------------------
(* Redelivery after a crash: the worker process crashes and the lease of a  *)
(* job is lost, with its handler invocation gone or still at work, while    *)
(* the store, the file system and the spawn do not fail.  The job is that   *)
(* of InitCrash.                                                             *)

\* The steps of the worker and of the queue next to it when no call fails:
\* the unlink removes the file that is there and rejects (ENOENT) when
\* another invocation of the job has removed it since existsSync
RedeliverySteps ==
  \/ Lease
  \/ \E id \in DOMAIN jobs : Promote(id)
  \/ \E h \in handlers : RunningWrite(h, TRUE)
  \/ \E h \in handlers : RunningRead(h, TRUE)
  \/ \E h \in handlers : WriteFileOpen(h, TRUE)
  \/ \E h \in handlers : WriteFile(h, TRUE)
  \/ \E h \in handlers : Spawn(h, TRUE)
  \/ \E h \in handlers : ProcOpens(h)
  \/ \E h \in handlers : ProcExited(h)
  \/ \E h \in handlers : TimerFires(h)
  \/ \E h \in handlers : Drain(h, TRUE)
  \/ \E h \in handlers : CompletedWrite(h, TRUE)
  \/ \E h \in handlers : CompletedRead(h, TRUE)
  \/ \E h \in handlers : CatchWrite(h, TRUE)
  \/ \E h \in handlers : CatchRead(h, TRUE)
  \/ \E h \in handlers : Finally(h)
  \/ \E h \in handlers : Unlink(h, FileName(h.id, jobs[h.id].language) \in DOMAIN files)
  \/ \E h \in handlers : Current(h) /\ Return(h)
  \/ \E h \in handlers : ReturnLeaseLost(h)
  \/ \E h \in handlers : KilledExits(h)
  \/ OrphanExits

\* The lease of a job whose worker is gone expires
StrandedLeaseExpires == \E id \in DOMAIN jobs : Stranded(id) /\ LeaseExpires(id)

NextRedelivery ==
  \/ RedeliverySteps
  \/ Crash
  \/ \E id \in DOMAIN jobs : LeaseExpires(id)

\* The worker, the queue and the subprocesses do not stop while they have a
\* step to take, and the lease of a job whose worker is gone does run out.
\* A crash and the loss of a lease that a live worker holds may happen and
\* need not.
SpecRedelivery ==
  /\ InitCrash
  /\ [][NextRedelivery]_vars
  /\ WF_vars(RedeliverySteps)
  /\ WF_vars(StrandedLeaseExpires)

----------------------------------------------------------------------------
(* The API next to an execution that is there already: a python session has *)
(* been run once and the run was processed to its end.  Sessions are        *)
(* created, updated and run and executions are read from then on, each      *)
(* request on an id that exists.  No call of the worker fails and no        *)
(* subprocess outlives the timeout; the steps of the worker are those that  *)
(* such jobs take.                                                           *)

InitFrame ==
  /\ sessions = (0 :> [language |-> "python", source_code |-> "ok",
                       status |-> "ACTIVE"])
  /\ executions = (0 :> [session_id |-> 0, status |-> "COMPLETED",
                         stdout |-> Some(ProgStdout("ok")),
                         stderr |-> OrNull(ProgStderr("ok")),
                         execution_time_ms |-> Some(0)])
  /\ pendingRun = {}
  /\ jobs = (0 :> [NewJob("python", "ok") EXCEPT !.state = "removed",
                                                 !.attemptsStarted = 1])
  /\ wait = <<>>
  /\ handlers = {}
  /\ files = NoFiles
  /\ orphans = 0
  /\ cleanupLog = {}
  /\ faults = MaxFaults
  /\ reply = NoReply

NextFrame ==
  \/ ReplyReceived
  \/ \E l \in ApiLanguages, c \in ApiCodes : CreateSession(l, c)
  \/ \E sid \in DOMAIN sessions, c \in ApiCodes : UpdateSessionCode(sid, c)
  \/ \E sid \in DOMAIN sessions : RunGetSession(sid)
  \/ \E p \in pendingRun : RunInsert(p, TRUE)
  \/ \E p \in pendingRun : RunRead(p, TRUE)
  \/ \E p \in pendingRun : RunEnqueue(p, TRUE)
  \/ \E id \in DOMAIN executions : GetExecution(id)
  \/ Lease
  \/ \E h \in handlers : RunningWrite(h, TRUE)
  \/ \E h \in handlers : RunningRead(h, TRUE)
  \/ \E h \in handlers : WriteFileOpen(h, TRUE)
  \/ \E h \in handlers : WriteFile(h, TRUE)
  \/ \E h \in handlers : Spawn(h, TRUE)
  \/ \E h \in handlers : ProcOpens(h)
  \/ \E h \in handlers : ProcExited(h)
  \/ \E h \in handlers : Drain(h, TRUE)
  \/ \E h \in handlers : CompletedWrite(h, TRUE)
  \/ \E h \in handlers : CompletedRead(h, TRUE)
  \/ \E h \in handlers : Finally(h)
  \/ \E h \in handlers : Unlink(h, TRUE)
  \/ \E h \in handlers : Return(h)

SpecFrame == InitFrame /\ [][NextFrame]_vars

----------------------------------------------------------------------------
(* Properties *)

InFlight(id) == \E h \in handlers : h.id = id

\* The handler invocations of a job
HandlersOf(id) == {h \in handlers : h.id = id}

\* The invocations of the job that hold its lease
LeaseHolders(id) == {h \in handlers : h.id = id /\ Current(h)}

\* The step is the end of invocation h, taken by the queue
Returned(h) == h.pc = "done" /\ h \notin handlers' /\ jobs' # jobs

\* The queue is done with the job: it is completed, or retained as failed
Settled(id) == id \in DOMAIN jobs /\ jobs[id].state \in {"removed", "failed"}

JobFile(id) == FileName(id, jobs[id].language)

\* The subprocesses that were spawned and have not exited
AliveProcs ==
  Cardinality({h \in handlers : h.proc \in {"alive", "killed"}}) + orphans

\* The invocation has left its try and catch blocks: it is in the finally
\* block or past it
PastTry(h) == h.pc \in {"finally", "unlink", "done"} /\ h.nterm > 0

\* The invocation has left its try and catch blocks and no write rejected on
\* the way out
Resolved(h) == PastTry(h) /\ ~h.escaped

\* The step takes invocation h past the await it was suspended at: it is a
\* step of h itself (an invocation is known by its job and its delivery), not
\* one of another invocation of the job, of the queue or of a subprocess
Resumed(h) ==
  /\ h \notin handlers'
  /\ \E g \in handlers' \ handlers :
       g.id = h.id /\ g.delivery = h.delivery /\ g.pc # h.pc

\* The step is one of invocation h going on from an await, and the call it
\* waited for did not reject (a rejected unlink leaves the files as they are)
OwnStep(h) ==
  /\ Resumed(h)
  /\ faults' = faults
  /\ h.pc = "unlink" => files' # files

LegalStep(a, b) ==
  \/ a = b
  \/ a = "QUEUED" /\ b = "RUNNING"
  \/ a = "RUNNING" /\ b \in Terminal

\* C1: every change of an execution's persisted status is QUEUED -> RUNNING
\* or RUNNING -> terminal; a terminal status is never changed.
StatusMonotonic ==
  [][\A id \in DOMAIN executions :
       LegalStep(executions[id].status, executions'[id].status)]_vars

\* C2, as the final result of a run: once the queue is done with a job for
\* good (the job was completed and removed, or it failed its last attempt and
\* is kept in the failed set, so that no worker will take it again), the
\* execution's status is COMPLETED, FAILED or TIMEOUT.
SettledIsTerminal ==
  \A id \in DOMAIN jobs :
    jobs[id].state \in {"removed", "failed"} =>
      executions[id].status \in Terminal

\* C3: when a step of the handler has thrown, the execution ends FAILED: after
\* a handler invocation that rejected, and in the finally block of one whose
\* try block threw anything but the timeout, the persisted status is FAILED.
ThrowEndsFailed ==
  /\ \A id \in DOMAIN jobs :
       (jobs[id].state \in {"delayed", "failed"} /\ ~InFlight(id)) =>
         executions[id].status = "FAILED"
  /\ \A h \in handlers :
       (PastTry(h) /\ h.err \notin {NoError, TimedOutMsg}) =>
         executions[h.id].status = "FAILED"

\* C4: no handler invocation rejects: the queue never counts a failed attempt.
NoHandlerRejects ==
  \A id \in DOMAIN jobs : jobs[id].attemptsMade = 0

\* C5: a handler invocation that has reached its finally block has issued
\* exactly one terminal status write, and none ever issues two.
OneTerminalWrite ==
  \A h \in handlers :
    h.nterm <= 1 /\ (h.pc \in {"finally", "unlink"} => h.nterm = 1)

\* C6 as stated: whenever no handler invocation is in flight for a job, the
\* temp file named after its execution id does not exist.
NoLeftoverFile ==
  \A id \in DOMAIN jobs : ~InFlight(id) => JobFile(id) \notin DOMAIN files

\* C6 as amended: whenever no handler invocation is in flight for a job, the
\* temp file named after its execution id does not exist, unless removing it
\* failed (which was logged).
NoLeftoverFileUnlessUnlinkFailed ==
  \A id \in DOMAIN jobs :
    (~InFlight(id) /\ id \notin cleanupLog) => JobFile(id) \notin DOMAIN files

\* A job was processed to TIMEOUT, its handler is over and its file is gone
FileRemovedAfterTimeout ==
  \E id \in DOMAIN jobs :
    /\ jobs[id].state = "removed"
    /\ executions[id].status = "TIMEOUT"
    /\ JobFile(id) \notin DOMAIN files

\* C7: at most `concurrency` (5) spawned subprocesses are alive.
AtMostFiveAlive == AliveProcs <= concurrency

\* C8: a handler invocation whose timer fired first has sent the kill
\* signal, and once its status write has resolved the execution is persisted
\* as TIMEOUT with stderr "Execution Timed Out" and stdout null, whatever the
\* subprocess had written.
TimeoutPersisted ==
  \A h \in handlers :
    h.err = TimedOutMsg =>
      /\ h.proc \in {"killed", "exited"}
      /\ (h.pc = "catchRead" \/ Resolved(h)) =>
           /\ executions[h.id].status = "TIMEOUT"
           /\ executions[h.id].stderr = Some(TimedOutMsg)
           /\ executions[h.id].stdout = Null

\* The timeout of a program that had written to stdout has been persisted
TimeoutWritten ==
  \E h \in handlers :
    /\ h.pc = "finally" /\ h.err = TimedOutMsg /\ ~h.escaped
    /\ ProgStdout(jobs[h.id].code) # ""

\* C9: a handler invocation whose subprocess exited first and in which
\* nothing threw persists COMPLETED with the captured stdout and stderr (an
\* empty stderr as null), whatever the exit code; with the subprocess exited
\* by itself, only a thrown stream read or store write leads to the catch
\* block.
ExitFirstCompleted ==
  \A h \in handlers :
    /\ ((h.pc = "completedRead" \/ PastTry(h)) /\ h.err = NoError) =>
         /\ h.proc = "exited"
         /\ executions[h.id].status = "COMPLETED"
         /\ executions[h.id].stdout = Some(ProgStdout(jobs[h.id].code))
         /\ executions[h.id].stderr = OrNull(ProgStderr(jobs[h.id].code))
    /\ (h.proc = "exited" /\ h.err \notin {NoError, TimedOutMsg}) =>
         h.err \in {DrainErrMsg, StoreErrMsg}

\* A subprocess that exited with a non-zero code has been persisted
NonZeroExitCompleted ==
  \E h \in handlers :
    /\ h.pc = "finally" /\ h.err = NoError
    /\ ProgExitCode(jobs[h.id].code) # 0
    /\ executions[h.id].status = "COMPLETED"

\* C10: a python job whose code has a syntax error (the subprocess exits by
\* itself with a non-zero code and text on stderr, nothing throws) is
\* persisted as FAILED with a non-empty stderr.
SyntaxErrorFails ==
  \A h \in handlers :
    (/\ PastTry(h) /\ h.err = NoError
     /\ jobs[h.id].language = "python" /\ jobs[h.id].code = "bad") =>
      /\ executions[h.id].status = "FAILED"
      /\ executions[h.id].stderr \notin {Null, Some("")}

\* worker.ts:37-44  the job's language is none of the three the table knows
Unsupported(id) ==
  jobs[id].language \notin {"python", "javascript", "typescript"}

\* C11: a job whose language has no command never gets a subprocess, and it
\* ends FAILED with stdout null and stderr "Unsupported language: <tag>": so
\* is the execution when the handler is past its try and catch blocks and no
\* write rejected on the way, and when the job has left the queue as completed.
UnsupportedLanguageFails ==
  /\ \A h \in handlers :
       Unsupported(h.id) =>
         /\ h.proc = "none"
         /\ Resolved(h) =>
              /\ executions[h.id].status = "FAILED"
              /\ executions[h.id].stdout = Null
              /\ executions[h.id].stderr =
                   Some(UnsupportedMsg(jobs[h.id].language))
  /\ \A id \in DOMAIN jobs :
       (Unsupported(id) /\ jobs[id].state = "removed") =>
         /\ executions[id].status = "FAILED"
         /\ executions[id].stdout = Null
         /\ executions[id].stderr = Some(UnsupportedMsg(jobs[id].language))

\* C12: no file of TEMP_DIR is ever created for a job whose language has no
\* command.
UnsupportedNoFile ==
  \A id \in DOMAIN jobs : Unsupported(id) => JobFile(id) \notin DOMAIN files

\* C13: the RUNNING write is the handler's first effect: an invocation past
\* its first await (unless that await rejected and ended it), a file of
\* TEMP_DIR or a subprocess of a job are there only when the execution's
\* status is no longer QUEUED.
RunningBeforeEffects ==
  /\ \A h \in handlers :
       (h.pc \notin {"start", "done"} \/ PastTry(h) \/ h.proc # "none") =>
         executions[h.id].status # "QUEUED"
  /\ \A id \in DOMAIN jobs :
       JobFile(id) \in DOMAIN files => executions[id].status # "QUEUED"

\* The file is written and the subprocess runs, status RUNNING
RunningWithFileAndProc ==
  \E h \in handlers :
    /\ h.proc = "alive"
    /\ JobFile(h.id) \in DOMAIN files
    /\ executions[h.id].status = "RUNNING"

\* C14: an execution whose status is QUEUED or RUNNING has stdout, stderr and
\* execution_time_ms null, also when its job is processed again after a
\* terminal result was persisted.
ResultNullUntilTerminal ==
  \A id \in DOMAIN executions :
    executions[id].status \in {"QUEUED", "RUNNING"} =>
      /\ executions[id].stdout = Null
      /\ executions[id].stderr = Null
      /\ executions[id].execution_time_ms = Null

\* The RUNNING write of a second attempt has resolved
RunningAgainAllNull ==
  \E h \in handlers :
    /\ h.pc = "writeFile"
    /\ jobs[h.id].attemptsMade = 1
    /\ executions[h.id].status = "RUNNING"
    /\ executions[h.id].stderr = Null
    /\ executions[h.id].execution_time_ms = Null

\* The job is in the queue's wait list
InWait(id) == \E i \in 1..Len(wait) : wait[i] = id

\* The handler invocations the job has had: the times the worker was handed
\* the job, whatever became of the invocation
Invocations(id) == jobs[id].attemptsStarted

\* C15: a job has at most `attempts` = 2 handler invocations in total, those
\* ended by a crash or a lost lease included; when the invocation that holds
\* the lease resolves, the job is removed, and a removed job never changes
\* and gets no further invocation; when it rejects in the first attempt the
\* job is delayed and then waits to be retried; when it rejects in the second
\* the job is in the failed set, where it stays: no job is ever dropped from
\* the queue's records.
AtMostTwoAttempts ==
  /\ [](\A id \in DOMAIN jobs :
          /\ Invocations(id) <= attempts
          /\ Settled(id) => LeaseHolders(id) = {} /\ ~InWait(id)
          /\ jobs[id].state = "delayed" => jobs[id].attemptsMade = 1
          /\ jobs[id].state = "failed" <=> jobs[id].attemptsMade = attempts)
  /\ [][\A id \in DOMAIN jobs :
          /\ id \in DOMAIN jobs'
          /\ Settled(id) =>
               /\ jobs'[id] = jobs[id]
               /\ \A g \in handlers' \ handlers :
                    g.id = id => \E h \in handlers \ handlers' : h.id = id
          /\ \A h \in LeaseHolders(id) :
               Returned(h) =>
                 jobs'[id].state =
                   IF ~h.escaped THEN "removed"
                   ELSE IF jobs[id].attemptsMade = 0 THEN "delayed" ELSE "failed"
          /\ jobs[id].state = "delayed" =>
               jobs'[id].state \in {"delayed", "waiting"}
          /\ jobs'[id].attemptsStarted > jobs[id].attemptsStarted =>
               /\ jobs[id].state = "waiting"
               /\ NewHandler(id) \in handlers' \ handlers]_vars

\* Both invocations of a job rejected
BothAttemptsRejected ==
  \E id \in DOMAIN jobs :
    /\ jobs[id].state = "failed" /\ jobs[id].attemptsMade = 2
    /\ Invocations(id) = 2 /\ jobs[id].stalled = 0
    /\ ~InFlight(id)

\* C16: while no store, file system or spawn call has failed, no handler
\* invocation rejects: a job that ran into the unsupported-language throw or
\* into the timeout has its FAILED or TIMEOUT result persisted, no failed
\* attempt counted, and is removed from the queue when the handler is over.
JobOutcomeNotRetried ==
  faults = 0 =>
    /\ \A h \in handlers : ~h.escaped
    /\ \A id \in DOMAIN jobs :
         /\ jobs[id].attemptsMade = 0
         /\ jobs[id].state \in {"waiting", "active", "removed"}
         /\ (executions[id].status \in {"FAILED", "TIMEOUT"} /\ ~InFlight(id)) =>
              jobs[id].state = "removed"

\* The job of a ruby session is over: FAILED, removed, no failed attempt
UnsupportedJobRemoved ==
  \E id \in DOMAIN jobs :
    /\ faults = 0
    /\ Unsupported(id)
    /\ jobs[id].state = "removed" /\ jobs[id].attemptsMade = 0
    /\ executions[id].status = "FAILED"

\* The job is active under the lease of a worker that is gone, and an
\* attempt remains
StrandedWithAttempt(id) ==
  Stranded(id) /\ jobs[id].attemptsMade + 1 < attempts

\* A handler invocation holds the lease of the job
Leased(id) == id \in DOMAIN jobs /\ LeaseHolders(id) # {}

ExecutionHasJob ==
  \A id \in DOMAIN executions :
    id \in DOMAIN jobs \/ \E p \in pendingRun : p.id = id

\* C19: every queued job and handler invocation has its execution in the
\* store, and so has every run request that is past its INSERT; a run request
\* has no job before addExecutionJob; an execution is created only before its
\* job exists, and no write sets a status back to QUEUED.
JobHasExecution ==
  /\ [](/\ DOMAIN jobs \subseteq DOMAIN executions
        /\ \A p \in pendingRun :
             /\ p.pc # "insert" => p.id \in DOMAIN executions
             /\ p.id \notin DOMAIN jobs
        /\ \A h \in handlers : h.id \in DOMAIN executions)
  /\ [][/\ \A id \in DOMAIN executions' \ DOMAIN executions :
             id \notin DOMAIN jobs /\ ~InFlight(id)
        /\ \A id \in DOMAIN executions :
             executions'[id].status = "QUEUED" => executions[id].status = "QUEUED"
       ]_vars

\* The RUNNING write of a first attempt found its execution
RunningWriteFoundRow ==
  \E h \in handlers :
    /\ h.pc = "startRead"
    /\ jobs[h.id].attemptsMade = 0
    /\ h.id \in DOMAIN executions
    /\ executions[h.id].status = "RUNNING"

\* The job of the execution has never been leased
NeverLeased(id) ==
  id \in DOMAIN jobs =>
    /\ jobs[id].state = "waiting"
    /\ jobs[id].attemptsMade = 0
    /\ jobs[id].attemptsStarted = 0

\* C20: an execution whose job has not been leased is QUEUED with null result
\* columns; a step changes the row of an existing execution only if it is a
\* step of a handler invocation of that execution, so no API operation (create
\* session, update code, run, get execution) does.
OnlyWorkerWritesExecutions ==
  /\ [](\A id \in DOMAIN executions :
          NeverLeased(id) =>
            executions[id] = [session_id |-> executions[id].session_id,
                              status |-> "QUEUED", stdout |-> Null,
                              stderr |-> Null, execution_time_ms |-> Null])
  /\ [][\A id \in DOMAIN executions :
          /\ id \in DOMAIN executions'
          /\ executions'[id] # executions[id] =>
               \E h \in handlers : h.id = id /\ h \notin handlers']_vars

\* Next to an execution that was processed before, a session has been
\* created and the earlier session has been run again and then updated: the
\* new execution is QUEUED, its job waits with the code of the run, and the
\* earlier execution has its result
QueuedNextToProcessed ==
  \E id \in DOMAIN jobs, old \in DOMAIN executions, sid \in DOMAIN sessions :
    /\ jobs[id].state = "waiting"
    /\ executions[id].status = "QUEUED"
    /\ sessions[executions[id].session_id].source_code # jobs[id].code
    /\ old # id
    /\ executions[old].session_id = executions[id].session_id
    /\ executions[old].status = "COMPLETED"
    /\ sid # executions[id].session_id

\* The response of POST /code-sessions/:id/run to an id getSession does not find
RunNotFoundReply(sid) ==
  [route |-> "POST /code-sessions/:id/run", id |-> sid, http |-> 404,
   body |-> [error |-> "Session not found"]]

\* C21: a run request for a session id that does not exist is answered 404
\* and writes nothing: the step that answers it leaves the executions, the
\* run requests in progress and the queue as they are, and no step creates an
\* execution for a session id that does not exist.
RunOnMissingSessionRefused ==
  [][\A sid \in 1..MaxSessions :
       /\ sid \notin DOMAIN sessions' =>
            /\ \A id \in DOMAIN executions' : executions'[id].session_id # sid
            /\ \A p \in pendingRun' : p.session_id # sid
       /\ (reply' # reply /\ reply' = RunNotFoundReply(sid)) =>
            /\ sid \notin DOMAIN sessions
            /\ UNCHANGED <<sessions, executions, pendingRun, jobs, wait>>]_vars

\* A run request for a missing session has been answered 404
RunRefused ==
  \E sid \in 1..MaxSessions :
    sid \notin DOMAIN sessions /\ reply = RunNotFoundReply(sid)

\* C22: the job of a run request carries the session's source text as it is
\* when the request is handled (getSession), a job's text never changes, and
\* the result persisted by the COMPLETED write is the output of the job's
\* text, whatever the session's text has become since.
RunsCodeOfRunRequest ==
  /\ [](\A h \in handlers :
          ((h.pc = "completedRead" \/ PastTry(h)) /\ h.err = NoError) =>
            /\ executions[h.id].stdout = Some(ProgStdout(jobs[h.id].code))
            /\ executions[h.id].stderr = OrNull(ProgStderr(jobs[h.id].code)))
  /\ [][/\ \A p \in pendingRun' :
             IF \E q \in pendingRun : q.id = p.id
             THEN \E q \in pendingRun :
                    /\ q.id = p.id /\ q.session_id = p.session_id
                    /\ q.code = p.code /\ q.language = p.language
             ELSE /\ p.pc = "insert"
                  /\ p.code = sessions[p.session_id].source_code
                  /\ p.language = sessions[p.session_id].language
        /\ \A id \in DOMAIN jobs' \ DOMAIN jobs :
             \E p \in pendingRun :
               p.id = id /\ p.pc = "enqueue"
                         /\ executions[id].session_id = p.session_id
                         /\ jobs'[id].code = p.code
                         /\ jobs'[id].language = p.language
        /\ \A id \in DOMAIN jobs :
             jobs'[id].code = jobs[id].code /\ jobs'[id].language = jobs[id].language
       ]_vars

\* The session's text was updated after the run request; the execution
\* completed with the output of the text of the run request, which is not the
\* output of the session's text
CompletedWithOldCode ==
  \E h \in handlers :
    /\ h.pc = "done" /\ h.err = NoError
    /\ executions[h.id].status = "COMPLETED"
    /\ executions[h.id].stdout = Some(ProgStdout(jobs[h.id].code))
    /\ ProgStdout(sessions[executions[h.id].session_id].source_code)
         # ProgStdout(jobs[h.id].code)

\* The messages of the errors the handler's own steps can throw
OwnErrors(id) ==
  {UnsupportedMsg(jobs[id].language), WriteErrMsg, SpawnErrMsg, DrainErrMsg,
   StoreErrMsg}

\* The row of an execution is a result of its own job
OwnResult(id) ==
  LET row == executions[id] IN
    \/ /\ row.status = "COMPLETED"
       /\ row.stdout = Some(ProgStdout(jobs[id].code))
       /\ row.stderr = OrNull(ProgStderr(jobs[id].code))
    \/ /\ row.status = "TIMEOUT"
       /\ row.stdout = Null /\ row.stderr = Some(TimedOutMsg)
    \/ /\ row.status = "FAILED"
       /\ row.stdout = Null /\ \E m \in OwnErrors(id) : row.stderr = Some(m)

\* The handler invocations of other jobs take no part in the step
OthersUntouched(id) ==
  /\ \A g \in handlers : g.id # id => g \in handlers'
  /\ \A other \in DOMAIN executions :
       other # id => executions'[other] = executions[other]

\* Whether file `name` exists, and with what content
FileState(fs, name) == IF name \in DOMAIN fs THEN <<fs[name]>> ELSE <<>>

\* C23: of two executions processed side by side, each one whose handler
\* resolved has a terminal row that is a result of its own job; the file of
\* a running subprocess exists, whatever the other handler invocation does; a
\* step that changes an execution's row or creates, rewrites or removes its file is a
\* step of a handler invocation of that execution, and changes no row and no
\* handler invocation of the other.
IndependentExecutions ==
  /\ [](/\ \A h \in handlers : h.proc = "alive" => JobFile(h.id) \in DOMAIN files
        /\ \A id \in DOMAIN jobs :
             jobs[id].state = "removed" => OwnResult(id))
  /\ [][/\ \A id \in DOMAIN executions :
             executions'[id] # executions[id] =>
               /\ \E h \in handlers : h.id = id /\ h \notin handlers'
               /\ OthersUntouched(id)
        /\ \A id \in DOMAIN jobs :
             FileState(files', JobFile(id)) # FileState(files, JobFile(id)) =>
               /\ \E h \in handlers : h.id = id /\ h \notin handlers'
               /\ OthersUntouched(id)
       ]_vars

\* One execution timed out and the other completed, both runs of one session
OneTimedOutOtherCompleted ==
  \E a \in DOMAIN jobs, b \in DOMAIN jobs :
    /\ a # b
    /\ executions[a].session_id = executions[b].session_id
    /\ jobs[a].state = "removed" /\ jobs[b].state = "removed"
    /\ executions[a].status = "TIMEOUT"
    /\ executions[b].status = "COMPLETED"
    /\ jobs[a].code = jobs[b].code

\* The step is the one of invocation h in which its unlink rejects: the
\* invocation goes on from the await of the unlink and the file is not removed
UnlinkFailedStep(h) ==
  /\ h.pc = "unlink"
  /\ Resumed(h)
  /\ files' = files

\* C24: the step in which the unlink of the finally block rejects logs the
\* failure and changes no row of the store and nothing of the invocation but
\* its position; the handler then ends as it would have without the failure:
\* it resolves (the job is removed, no failed attempt is counted) unless a
\* store write had rejected.
CleanupFailureOnlyLogged ==
  [][\A h \in handlers :
       /\ UnlinkFailedStep(h) =>
            /\ h.id \in cleanupLog'
            /\ executions' = executions
            /\ jobs' = jobs
            /\ [h EXCEPT !.pc = "done"] \in handlers'
       /\ Returned(h) =>
            /\ executions' = executions
            /\ ~h.escaped =>
                 /\ jobs'[h.id].state = "removed"
                 /\ jobs'[h.id].attemptsMade = jobs[h.id].attemptsMade
            /\ h.escaped =>
                 jobs'[h.id].attemptsMade = jobs[h.id].attemptsMade + 1]_vars

\* The unlink failed after a resolved terminal write: the file is there, the
\* job is removed, the row is terminal
CleanupFailedJobCompleted ==
  \E id \in cleanupLog :
    /\ jobs[id].state = "removed" /\ jobs[id].attemptsMade = 0
    /\ JobFile(id) \in DOMAIN files
    /\ executions[id].status \in Terminal

\* C25: a handler invocation in which writeFile rejected or Bun.spawn threw
\* has no subprocess; once its catch block's write has resolved, the
\* execution is FAILED with stdout null and stderr the message of that error.
WriteOrSpawnErrorFails ==
  \A h \in handlers :
    h.err \in {WriteErrMsg, SpawnErrMsg} =>
      /\ h.proc = "none"
      /\ h.pc \in {"catch", "catchRead", "finally", "unlink", "done"}
      /\ (h.pc = "catchRead" \/ Resolved(h)) =>
           /\ executions[h.id].status = "FAILED"
           /\ executions[h.id].stdout = Null
           /\ executions[h.id].stderr = Some(h.err)
           /\ executions[h.id].execution_time_ms # Null

\* Bun.spawn threw and the FAILED write resolved
SpawnErrorPersisted ==
  \E h \in handlers :
    /\ h.pc = "finally" /\ ~h.escaped /\ h.err = SpawnErrMsg
    /\ executions[h.id].status = "FAILED"
    /\ executions[h.id].stderr = Some(SpawnErrMsg)

\* C26: every execution refers to a session of the store; no step removes a
\* session or an execution or changes the session an execution refers to.
ReferentialIntegrity ==
  /\ [](\A id \in DOMAIN executions :
          executions[id].session_id \in DOMAIN sessions)
  /\ [][/\ DOMAIN sessions \subseteq DOMAIN sessions'
        /\ DOMAIN executions \subseteq DOMAIN executions'
        /\ \A id \in DOMAIN executions :
             executions'[id].session_id = executions[id].session_id]_vars

\* An execution of a session has been processed to its end and is still there
SessionKeepsTerminalExecution ==
  \E id \in DOMAIN executions :
    /\ executions[id].session_id \in DOMAIN sessions
    /\ executions[id].status \in Terminal
    /\ id \in DOMAIN jobs /\ jobs[id].state = "removed"
    /\ reply = GetExecutionResponse(executions, id)

\* C27: the race is settled by the first of exit and timer: the step out of
\* the race is the exit (streams are read next, no error) or the timer (kill,
\* the sentinel error); after it, neither the timer firing late nor the killed
\* subprocess exiting changes whether the invocation counts as timed out, and
\* the terminal status it persists is TIMEOUT exactly when the timer was first.
FirstOfExitAndTimerDecides ==
  /\ [](\A h \in handlers :
          /\ h.err = TimedOutMsg => h.timer = "fired" /\ h.proc # "alive"
          /\ (h.pc \in {"completedRead", "catchRead"} \/ Resolved(h)) =>
               /\ executions[h.id].status = "TIMEOUT" <=> h.err = TimedOutMsg
               /\ executions[h.id].status = "COMPLETED" <=> h.err = NoError)
  /\ [][\A h \in handlers : \A g \in handlers' :
          (g.id = h.id /\ h \notin handlers') =>
            /\ (h.pc = "race" /\ g.pc # "race") =>
                 \/ g.pc = "drain" /\ g.proc = "exited" /\ g.err = NoError
                 \/ g.pc = "catch" /\ g.proc = "killed" /\ g.err = TimedOutMsg
            /\ h.pc \in AfterRace =>
                 (g.err = TimedOutMsg <=> h.err = TimedOutMsg)]_vars

\* The exit was first, the timer fired while the handler was still at work,
\* and the execution is COMPLETED
CompletedDespiteLateTimer ==
  \E h \in handlers :
    /\ h.pc = "done" /\ h.timer = "fired" /\ h.err = NoError
    /\ executions[h.id].status = "COMPLETED"

\* C28: an invocation whose timer won the race has sent the kill signal
\* before its next step, the TIMEOUT write of the catch block: it is in the
\* catch block or past it with a subprocess that was killed, and the
\* execution is TIMEOUT only once the catch block's UPDATE is applied; the
\* streams are read and the COMPLETED write is made only by an invocation
\* whose subprocess exited by itself.
KillBeforeTimeoutWrite ==
  \A h \in handlers :
    /\ h.err = TimedOutMsg =>
         /\ h.proc \in {"killed", "exited"}
         /\ h.pc \in {"catch", "catchRead", "finally", "unlink", "done"}
         /\ h.nterm <= 1
    /\ h.pc \in {"drain", "completed", "completedRead"} =>
         h.proc = "exited" /\ h.err = NoError
    /\ ((h.pc \notin {"start", "done"} \/ PastTry(h))
          /\ executions[h.id].status = "TIMEOUT") =>
         /\ h.err = TimedOutMsg
         /\ h.pc \in {"catchRead", "finally", "unlink", "done"}

\* The kill signal is sent, the TIMEOUT write is still to come
KilledNotYetWritten ==
  \E h \in handlers :
    /\ h.pc = "catch" /\ h.err = TimedOutMsg /\ h.proc = "killed"
    /\ executions[h.id].status = "RUNNING"

\* C29: the handler's writes do not look at the row they replace: whatever
\* the execution's status is (QUEUED, or RUNNING or terminal from an earlier
\* delivery), the first step of an invocation writes RUNNING with null result
\* columns and goes on, a subprocess is spawned for a known language, and the
\* COMPLETED, FAILED or TIMEOUT write puts its own result in the row.
NoStatusCheckOnRedelivery ==
  [][\A h \in handlers :
       OwnStep(h) =>
         /\ h.pc = "start" =>
              /\ [h EXCEPT !.pc = "startRead"] \in handlers'
              /\ executions'[h.id].status = "RUNNING"
              /\ executions'[h.id].stdout = Null
              /\ executions'[h.id].stderr = Null
         /\ (h.pc = "spawn" /\ ~Unsupported(h.id)) =>
              \E g \in handlers' : g.id = h.id /\ g.proc = "alive"
         /\ (h.pc = "completed" /\ Resumed(h)) =>
              /\ executions'[h.id].status = "COMPLETED"
              /\ executions'[h.id].stdout = Some(ProgStdout(jobs[h.id].code))
         /\ (h.pc = "catch" /\ Resumed(h)) =>
              /\ executions'[h.id].status = Classify(h.err)
              /\ executions'[h.id].stderr = Some(h.err)]_vars

\* The job was delivered again after a crash: its second subprocess runs
\* while one the crashed worker spawned is still there
SecondSubprocess ==
  \E h \in handlers :
    /\ jobs[h.id].stalled >= 1
    /\ h.proc = "alive"
    /\ orphans >= 1
    /\ executions[h.id].status = "RUNNING"

\* The jobs the queue has handed to the worker and not got back
ActiveJobs == {id \in DOMAIN jobs : jobs[id].state = "active"}

\* C30: at most `concurrency` = 5 handler invocations are in flight, one per
\* active job: a further job is leased only when an invocation is over.
AtMostFiveInFlight ==
  /\ Cardinality(handlers) <= concurrency
  /\ \A id \in DOMAIN jobs : Cardinality(HandlersOf(id)) <= 1
  /\ ActiveJobs = {h.id : h \in handlers}
  /\ Cardinality(ActiveJobs) = Cardinality(handlers)

\* Five invocations are in flight, one of them about to end, and the sixth
\* job waits
FiveInFlightOneWaits ==
  /\ Cardinality(handlers) = 5
  /\ \E h \in handlers : h.pc = "finally"
  /\ wait # <<>>
  /\ jobs[Head(wait)].state = "waiting"

\* What the subprocess of an invocation of the job can have run: the job's
\* text, or what another invocation of the job left at filePath
RanOf(id) == {jobs[id].code, NoFile, NoText}

\* The row of the execution has the shape of its status: a COMPLETED row holds
\* the output of a subprocess of the job, stderr null exactly when that
\* subprocess wrote nothing to stderr
ConsistentShape(id) ==
  LET row == executions[id] IN
    /\ row.status = "COMPLETED" =>
         /\ row.stdout # Null
         /\ \E ran \in RanOf(id) :
              /\ row.stdout = Some(ProgStdout(ran))
              /\ row.stderr = Null <=> ProgStderr(ran) = ""
    /\ row.status \in {"FAILED", "TIMEOUT"} =>
         /\ row.stdout = Null
         /\ row.stderr \notin {Null, Some("")}
    /\ row.status \in Terminal => row.execution_time_ms # Null

StoreErrorRow(row) ==
  /\ row.status = "FAILED"
  /\ row.stdout = Null
  /\ row.stderr = Some(StoreErrMsg)
  /\ row.execution_time_ms # Null

\* C32: when the COMPLETED write throws (the subprocess has exited by itself,
\* nothing else has thrown), the same invocation goes to its catch block with
\* the store's error, the row being as it was or COMPLETED; the catch block's
\* write then puts FAILED, stdout null and the store error's message in the
\* row, also over a COMPLETED that had taken effect (the UPDATE was applied
\* and the SELECT after it rejected), unless that write's own UPDATE is
\* rejected, which leaves the row as it is.
CompletedWriteThrowEndsFailed ==
  [][\A h \in handlers :
       /\ (h.pc \in {"completed", "completedRead"} /\ Resumed(h)
             /\ faults' = faults + 1) =>
            /\ h.proc = "exited" /\ h.err = NoError
            /\ \E g \in handlers' :
                 g.id = h.id /\ g.pc = "catch" /\ g.err = StoreErrMsg
            /\ executions' = executions
            /\ h.pc = "completedRead" => executions[h.id].status = "COMPLETED"
       /\ (h.pc = "catch" /\ h.err = StoreErrMsg /\ Resumed(h)) =>
            /\ h.proc = "exited"
            /\ IF faults' = faults
               THEN /\ StoreErrorRow(executions'[h.id])
                    /\ \E g \in handlers' : g.id = h.id /\ g.pc = "catchRead"
               ELSE /\ executions' = executions
                    /\ \E g \in handlers' :
                         g.id = h.id /\ g.pc = "finally" /\ g.escaped]_vars

\* The subprocess exited in time, the COMPLETED write threw, and the catch
\* block's write resolved: two terminal writes, the execution is FAILED with
\* the store's error
CompletedThenFailed ==
  \E h \in handlers :
    /\ h.pc = "finally" /\ h.proc = "exited" /\ h.err = StoreErrMsg
    /\ ~h.escaped /\ h.nterm = 2
    /\ StoreErrorRow(executions[h.id])

\* The step is the rejection of invocation h at its RUNNING write: the UPDATE
\* or the SELECT after it failed in a step of h
RunningWriteThrew(h) ==
  /\ h.pc \in {"start", "startRead"}
  /\ Resumed(h)
  /\ faults' = faults + 1

\* The invocation has rejected at its RUNNING write
StoppedAtRunning(h) == h.pc = "done" /\ h.nterm = 0

\* The step is the end of invocation h: the handler has resolved or rejected
\* and the worker, which has not crashed, hands the outcome to the queue
Ended(h) == h.pc = "done" /\ handlers' = handlers \ {h} /\ faults' = faults

\* The rejected RUNNING write ends the invocation there: the rejecting step
\* changes no row, no file and no job, the invocation has no subprocess and
\* has made no terminal write, and when it is over the queue counts a failed
\* attempt, to be retried unless it was the last
StoppedAndCounted ==
  \A h \in handlers :
    /\ RunningWriteThrew(h) =>
         /\ [h EXCEPT !.pc = "done", !.escaped = TRUE] \in handlers'
         /\ UNCHANGED <<executions, files, jobs, wait, orphans>>
    /\ (StoppedAtRunning(h) /\ Current(h) /\ Ended(h)) =>
         /\ h.escaped /\ h.proc = "none" /\ h.err = NoError
         /\ UNCHANGED <<executions, files, orphans>>
         /\ jobs'[h.id].attemptsMade = jobs[h.id].attemptsMade + 1
         /\ jobs'[h.id].state = IF jobs[h.id].attemptsMade + 1 < attempts
                                THEN "delayed" ELSE "failed"

\* The row after a RUNNING write that took effect
RunningRow(row) ==
  /\ row.status = "RUNNING"
  /\ row.stdout = Null /\ row.stderr = Null /\ row.execution_time_ms = Null

\* The row of an execution no handler invocation has written to
QueuedRow(row) ==
  /\ row.status = "QUEUED"
  /\ row.stdout = Null /\ row.stderr = Null /\ row.execution_time_ms = Null

\* C33 as stated: when the RUNNING write throws, the handler stops there: no
\* file, no subprocess, no terminal write, a failed attempt is counted and
\* retried under the retry policy, and the execution's row is left as it was:
\* in a job's first attempt, QUEUED.
RunningThrowLeavesRow ==
  /\ [](\A h \in handlers :
          (StoppedAtRunning(h) /\ jobs[h.id].attemptsMade = 0) =>
            QueuedRow(executions[h.id]))
  /\ [][StoppedAndCounted]_vars

\* C33 as amended: when the RUNNING write throws, the handler stops there: no
\* file, no subprocess, no terminal write, a failed attempt is counted and
\* retried under the retry policy, and the execution's row is left as it was
\* (in a job's first attempt, QUEUED) or, when the UPDATE had been applied
\* before the call threw, is RUNNING with null result columns.
RunningThrowStopsHandler ==
  /\ [](\A h \in handlers :
          (StoppedAtRunning(h) /\ jobs[h.id].attemptsMade = 0) =>
            QueuedRow(executions[h.id]) \/ RunningRow(executions[h.id]))
  /\ [][/\ StoppedAndCounted
        /\ \A h \in handlers :
             (h.pc = "start" /\ Resumed(h) /\ executions' # executions) =>
               /\ RunningRow(executions'[h.id])
               /\ \A id \in DOMAIN executions :
                    id # h.id => executions'[id] = executions[id]]_vars

\* The RUNNING write of the first attempt threw without effect, and the job
\* is being retried: the row is still QUEUED, there is no file
RetriedAfterRunningThrow ==
  \E h \in handlers :
    /\ h.pc = "start"
    /\ jobs[h.id].attemptsMade = 1
    /\ executions[h.id].status = "QUEUED"
    /\ JobFile(h.id) \notin DOMAIN files

\* C34: while a subprocess spawned for an execution is alive and has not been
\* killed, the execution's temp file exists: no handler invocation, a second
\* one of the same job included, has removed it.
FileExistsWhileProcAlive ==
  \A h \in handlers : h.proc = "alive" => JobFile(h.id) \in DOMAIN files

====
